---- MODULE Spec2Model ----
(***************************************************************************)
(* SQLTool (src/mcp_server/agents/sql_agent.py): the cached connection     *)
(* handle and its context manager _get_connection, the three public        *)
(* operations get_table_schema, execute_query and                          *)
(* natural_language_to_sql_results, and the text handling of               *)
(* generate_sql_query.                                                     *)
(*                                                                         *)
(* Python strings are TLA+ strings; None is the empty tuple and a present  *)
(* optional value x is <<x>>.  Connections are numbered 1, 2, ... in the   *)
(* order pytds.connect returns them; 0 is the handle value None.           *)
(***************************************************************************)
EXTENDS Integers, Sequences, FiniteSets, TLC

\* Largest number of connections pytds.connect hands out in one behaviour;
\* once they are used up every further connect attempt fails.
MaxConns == 3

\* Largest number of operations the caller starts in one behaviour.
MaxCalls == 3

\* Largest number of operations the two callers that share one instance start
\* between them.
MaxSharedCalls == 3

\* Largest number of tokens concatenated into one completion text.
MaxTokens == 3

Callers == {1, 2}

None == << >>
Some(x) == << x >>

-----------------------------------------------------------------------------
(* Text handling of generate_sql_query                                     *)

Keywords == {"drop", "truncate", "delete", "update", "insert", "create"}

UpperCase == "ABCDEFGHIJKLMNOPQRSTUVWXYZ"
LowerCase == "abcdefghijklmnopqrstuvwxyz"

Char(s, i) == SubSeq(s, i, i)

UpperLetters == {Char(UpperCase, i) : i \in 1..Len(UpperCase)}

LowerOf ==
  [c \in UpperLetters |->
     Char(LowerCase, CHOOSE i \in 1..Len(UpperCase) : Char(UpperCase, i) = c)]

\* str.lower() on one character
LowerChar(c) == IF c \in UpperLetters THEN LowerOf[c] ELSE c

RECURSIVE Lower(_)
Lower(s) ==
  IF Len(s) = 0 THEN ""
  ELSE LowerChar(Char(s, 1)) \o Lower(SubSeq(s, 2, Len(s)))

IsSpace(c) == c \in {" ", "\n", "\t", "\r"}

RECURSIVE LStrip(_)
LStrip(s) ==
  IF Len(s) > 0 /\ IsSpace(Char(s, 1)) THEN LStrip(SubSeq(s, 2, Len(s))) ELSE s

RECURSIVE RStrip(_)
RStrip(s) ==
  IF Len(s) > 0 /\ IsSpace(Char(s, Len(s)))
  THEN RStrip(SubSeq(s, 1, Len(s) - 1)) ELSE s

\* str.strip()
Strip(s) == RStrip(LStrip(s))

\* str.replace(pat, ''): the non-overlapping occurrences, left to right
RECURSIVE Remove(_, _)
Remove(s, pat) ==
  IF Len(s) < Len(pat) THEN s
  ELSE IF SubSeq(s, 1, Len(pat)) = pat
       THEN Remove(SubSeq(s, Len(pat) + 1, Len(s)), pat)
       ELSE Char(s, 1) \o Remove(SubSeq(s, 2, Len(s)), pat)

\* the substring test (k in s)
Contains(s, k) ==
  \E i \in 1..(Len(s) - Len(k) + 1) : SubSeq(s, i, i + Len(k) - 1) = k

StartsWith(s, k) == Len(s) >= Len(k) /\ SubSeq(s, 1, Len(k)) = k

\* The backquote character.  A TLA+ string literal cannot hold a backquote,
\* so the model writes it ^ (a character no text of the model uses otherwise).
Tick == "^"

\* the code-fence marker, three backquotes
Fence == Tick \o Tick \o Tick

\* lines 154-155: strip, remove the fence markers, strip again
StripFences(text) == Strip(Remove(Remove(Strip(text), Fence \o "sql"), Fence))

\* line 158 with the case folding dropped
HarmfulCaseSensitive(sql) == \E k \in Keywords : Contains(sql, k)

\* line 158: any(keyword in sql_query.lower() for keyword in [...])
Harmful(sql) == \E k \in Keywords : Contains(Lower(sql), k)

SchemaError == "ERROR: Could not retrieve database schema"
HarmfulError == "ERROR: Potentially harmful query detected. Only SELECT queries are allowed."
GenerateError(e) == "ERROR: Failed to generate query: " \o e

\* lines 153-161: the value generate_sql_query returns for a completion text
Validate(text) ==
  LET sql == StripFences(text)
  IN  IF Harmful(sql) THEN HarmfulError ELSE sql

-----------------------------------------------------------------------------
(* Inputs                                                                  *)

Tokens == {"SELECT a FROM t", "drop", "DROP", "dr", "oP", Fence, Fence \o "sql",
           " ", "Creat", "e", "ERROR"}

RECURSIVE Concats(_)
Concats(n) ==
  IF n = 0 THEN {""}
  ELSE LET shorter == Concats(n - 1)
       IN  shorter \cup {s \o t : s \in shorter, t \in Tokens}

\* what the completion service may return
Texts == Concats(MaxTokens)

\* the texts used where the pipeline runs many times
SampleTexts == {"SELECT a FROM t", Fence \o "sql\nSELECT a FROM t\n" \o Fence,
                "DROP TABLE t", "ERROR"}

\* the statements handed to execute_query directly
SampleQueries == {"SELECT a FROM t", "DROP TABLE t"}

-----------------------------------------------------------------------------
(* State                                                                   *)

VARIABLES
  conn,        \* self._conn: 0 is None, otherwise the connection it refers to
  nextId,      \* the number pytds.connect gives the next connection it opens
  closed,      \* the connections close() has been called on
  serialized,  \* whether the callers' operations are serialized externally
  callers      \* each caller's position in the operation it runs, and its locals

vars == <<conn, nextId, closed, serialized, callers>>

\* the exceptions of the external collaborators, by description
ConnectFailure == "login timeout"
StatementFailure == "invalid object name"
CursorCloseFailure == "cursor close failed"
NoneTypeFailure == "'NoneType' object has no attribute 'cursor'"
ServiceFailure == "service unavailable"

\* contextlib's RuntimeError when the generator yields again after throw()
DidNotStop == "generator didn't stop after throw()"

\* line 75
ConnectionError(e) == "Failed to connect to database: " \o e

\* the rows of a result set, already converted by str() (lines 178-181)
ResultData == [columns |-> <<"a">>, rows |-> << <<"1">> >>]

NoResult == [status |-> "none"]


IdleCaller ==
  [pc |-> "idle",          \* position in the operation
   calls |-> 0,            \* operations started so far
   op |-> "none",          \* the public operation being run
   phase |-> "none",       \* which with-block: "schema" or "exec"
   at |-> 0,               \* the yield the generator is suspended at: 1 (line 52), 2 (line 71)
   thrown |-> FALSE,       \* the block's exception was thrown into the generator
   held |-> 0,             \* the value the generator yielded (conn in the block)
   newc |-> 0,             \* the connection pytds.connect returned, not yet stored
   err |-> "",             \* the exception in flight
   start |-> 0,            \* the handle when the acquisition began
   probes |-> 0,           \* SELECT 1 probes in this acquisition
   connects |-> 0,         \* pytds.connect calls in this acquisition
   closes |-> 0,           \* close() calls in this acquisition
   probeFailed |-> FALSE,  \* the probe of this acquisition threw
   connectFailed |-> FALSE,\* the connect of this acquisition threw
   blockFailedAt |-> 0,    \* the yield the block was entered from when it threw
   everThrown |-> FALSE,   \* some with-block of this caller has thrown
   faults |-> {},          \* the exceptions connect and the block's statements raised
   tables |-> "pending",   \* what get_table_schema returned: "empty" or "nonempty"
   replied |-> FALSE,      \* the completion service returned a text
   reply |-> "",           \* that text
   completions |-> 0,      \* completion requests in this operation
   executes |-> 0,         \* execute_query invocations in this operation
   stmts |-> {},           \* the statements sent to the database in this operation
   query |-> "",           \* execute_query's argument
   result |-> NoResult,    \* the dict the operation returned (or is building)
   prev |-> 0]             \* the connection the previous with-block ran on, when it
                           \* was entered from line 52 and ended normally; else 0

\* line 31
Init ==
  /\ conn = 0
  /\ nextId = 1
  /\ closed = {}
  /\ serialized = TRUE
  /\ callers = [p \in Callers |-> IdleCaller]

Set(p, r) == callers' = [callers EXCEPT ![p] = r]

\* entering `with self._get_connection() as conn` (lines 82, 170)
Enter(r, phase) ==
  [r EXCEPT !.pc = "check", !.phase = phase, !.at = 0, !.thrown = FALSE,
            !.held = 0, !.newc = 0, !.err = "", !.start = 0, !.probes = 0,
            !.connects = 0, !.closes = 0, !.probeFailed = FALSE,
            !.connectFailed = FALSE, !.blockFailedAt = 0, !.faults = {}]

\* line 167, then line 170
EnterExecute(r, sql) ==
  Enter([r EXCEPT !.query = sql, !.executes = @ + 1,
                  !.result = [status |-> "error", query |-> sql,
                              error |-> None, data |-> None]],
        "exec")

-----------------------------------------------------------------------------
(* The public operations: entry, and what follows their with-block         *)

Operations == {"get_table_schema", "execute_query", "natural_language_to_sql_results"}

\* the first statements of an operation, up to its (first) with-block:
\* lines 79-82, 167-170, 192 -> 124 -> 79-82
Begin(r, o, sql) ==
  LET fresh == [r EXCEPT !.op = o, !.calls = @ + 1, !.tables = "pending", !.replied = FALSE,
                         !.reply = "", !.completions = 0, !.executes = 0,
                         !.stmts = {}, !.query = "", !.result = NoResult]
  IN  IF o = "execute_query" THEN EnterExecute(fresh, sql)
      ELSE Enter(fresh, "schema")

\* lines 194-197: generate_sql_query returned sql
FinishGenerate(r, sql) ==
  IF StartsWith(sql, "ERROR")
  THEN [r EXCEPT !.pc = "idle",
                 !.result = [status |-> "error", error |-> Some(sql)]]
  ELSE EnterExecute(r, sql)

\* generate_sql_query going on to the completion request whatever the schema is
AfterSchemaNoEmptyTest(r, tables) == [r EXCEPT !.tables = tables, !.pc = "complete"]

\* get_table_schema returned tables: line 112 or 110, then for the pipeline
\* lines 125-126
AfterSchema(r, tables) ==
  LET r1 == [r EXCEPT !.tables = tables]
  IN  IF r.op = "get_table_schema" THEN [r1 EXCEPT !.pc = "idle"]
      ELSE IF tables = "empty" THEN FinishGenerate(r1, SchemaError)
      ELSE [r1 EXCEPT !.pc = "complete"]

\* the with-block is over: normally (exc = "") or with the exception exc
\* reaching the operation's except clause (lines 108-112, 185-188)
AfterBlock(r, exc, handle) ==
  LET r1 == [r EXCEPT !.prev = IF r.at = 1 /\ exc = "" THEN handle ELSE 0]
  IN  IF r.phase = "exec"
      THEN [r1 EXCEPT !.pc = "idle",
                      !.result = IF exc = "" THEN @ ELSE [@ EXCEPT !.error = Some(exc)]]
      ELSE AfterSchema(r1, IF exc = "" THEN r.tables ELSE "empty")

-----------------------------------------------------------------------------
(* The with-block's statements                                             *)

SchemaQuery == "SELECT ... FROM INFORMATION_SCHEMA.TABLES"
ProbeQuery == "SELECT 1"

BlockOutcomes == {"rows", "norows", "fails", "closefails"}

BlockFails(outcome) == outcome \in {"fails", "closefails"}

\* execute_query's block setting the status before the statement has run
ReadRowsStatusFirst(r, outcome) ==
  IF r.phase = "exec"
  THEN IF outcome = "fails" THEN [r EXCEPT !.result.status = "success"]
       ELSE [r EXCEPT !.result.status = "success", !.result.data = Some(ResultData)]
  ELSE IF outcome = "fails" THEN r
  ELSE [r EXCEPT !.tables = IF outcome = "norows" THEN "empty" ELSE "nonempty"]

\* lines 171-181 (execute_query) and 83-104 (get_table_schema): what the block
\* has stored when it ends or throws
ReadRows(r, outcome) ==
  IF outcome = "fails" THEN r
  ELSE IF r.phase = "exec"
  THEN [r EXCEPT !.result.status = "success", !.result.data = Some(ResultData)]
  ELSE [r EXCEPT !.tables = IF outcome = "norows" THEN "empty" ELSE "nonempty"]

\* the exception a failing block raises
BlockFailure(r, outcome) ==
  IF r.held = 0 THEN NoneTypeFailure
  ELSE IF outcome = "closefails" THEN CursorCloseFailure
  ELSE StatementFailure

-----------------------------------------------------------------------------
(* _get_connection, one step for each read or write of self._conn          *)

\* an acquisition that never looks at the cached handle
CheckAlwaysConnect(p) ==
  /\ callers[p].pc = "check"
  /\ Set(p, [callers[p] EXCEPT !.start = conn, !.pc = "connect"])
  /\ UNCHANGED <<conn, nextId, closed, serialized>>

\* line 46: if self._conn is not None
Check(p) ==
  /\ callers[p].pc = "check"
  /\ Set(p, [callers[p] EXCEPT !.start = conn,
                               !.pc = IF conn # 0 THEN "probe" ELSE "connect"])
  /\ UNCHANGED <<conn, nextId, closed, serialized>>

\* a probe whose success is not trusted: the connection is replaced anyway
ProbeAlwaysReconnects(p) ==
  /\ callers[p].pc = "probe"
  /\ \E ok \in BOOLEAN :
       /\ ok => (conn # 0 /\ conn \notin closed)
       /\ Set(p, IF conn = 0
                 THEN [callers[p] EXCEPT !.probeFailed = TRUE, !.pc = "close"]
                 ELSE [callers[p] EXCEPT !.probes = @ + 1,
                                         !.stmts = @ \cup {ProbeQuery},
                                         !.probeFailed = ~ok,
                                         !.pc = "close"])
  /\ UNCHANGED <<conn, nextId, closed, serialized>>

\* lines 49-51: the liveness probe on the connection self._conn refers to now
Probe(p) ==
  /\ callers[p].pc = "probe"
  /\ \E ok \in BOOLEAN :
       /\ ok => (conn # 0 /\ conn \notin closed)
       /\ Set(p, IF conn = 0
                 THEN [callers[p] EXCEPT !.probeFailed = TRUE, !.pc = "close"]
                 ELSE [callers[p] EXCEPT !.probes = @ + 1,
                                         !.stmts = @ \cup {ProbeQuery},
                                         !.probeFailed = ~ok,
                                         !.pc = IF ok THEN "yield1" ELSE "close"])
  /\ UNCHANGED <<conn, nextId, closed, serialized>>

\* line 52: yield self._conn
Yield1(p) ==
  /\ callers[p].pc = "yield1"
  /\ Set(p, [callers[p] EXCEPT !.held = conn, !.at = 1, !.pc = "block"])
  /\ UNCHANGED <<conn, nextId, closed, serialized>>

\* the handler of line 54 dropping the handle without closing the connection
CloseSkipped(p) ==
  /\ callers[p].pc = "close"
  /\ Set(p, [callers[p] EXCEPT !.pc = "reset"])
  /\ UNCHANGED <<conn, nextId, closed, serialized>>

\* lines 56-59: self._conn.close(), whatever it raises is dropped
Close(p) ==
  /\ callers[p].pc = "close"
  /\ closed' = IF conn # 0 THEN closed \cup {conn} ELSE closed
  /\ Set(p, [callers[p] EXCEPT !.closes = IF conn # 0 THEN @ + 1 ELSE @,
                               !.pc = "reset"])
  /\ UNCHANGED <<conn, nextId, serialized>>

\* line 60: self._conn = None
Reset(p) ==
  /\ callers[p].pc = "reset"
  /\ conn' = 0
  /\ Set(p, [callers[p] EXCEPT !.pc = "connect"])
  /\ UNCHANGED <<nextId, closed, serialized>>

\* lines 63-70: the call of pytds.connect
Connect(p) ==
  /\ callers[p].pc = "connect"
  /\ \E ok \in BOOLEAN :
       /\ ok => nextId <= MaxConns
       /\ nextId' = IF ok THEN nextId + 1 ELSE nextId
       /\ Set(p, IF ok
                 THEN [callers[p] EXCEPT !.connects = @ + 1, !.newc = nextId,
                                         !.pc = "assign"]
                 ELSE [callers[p] EXCEPT !.connects = @ + 1,
                                         !.connectFailed = TRUE,
                                         !.err = ConnectFailure,
                                         !.faults = @ \cup {ConnectFailure},
                                         !.pc = "except"])
  /\ UNCHANGED <<conn, closed, serialized>>

\* line 63: the store of connect's result into self._conn
Assign(p) ==
  /\ callers[p].pc = "assign"
  /\ conn' = callers[p].newc
  /\ Set(p, [callers[p] EXCEPT !.pc = "yield2"])
  /\ UNCHANGED <<nextId, closed, serialized>>

\* line 71: yield self._conn.  When the generator gets here after the block's
\* exception was thrown into it, contextlib raises RuntimeError instead.
Yield2(p) ==
  /\ callers[p].pc = "yield2"
  /\ Set(p, IF callers[p].thrown
            THEN [callers[p] EXCEPT !.err = DidNotStop, !.pc = "raised"]
            ELSE [callers[p] EXCEPT !.held = conn, !.at = 2, !.pc = "block"])
  /\ UNCHANGED <<conn, nextId, closed, serialized>>

\* lines 73-75: the outer handler
Except(p) ==
  /\ callers[p].pc = "except"
  /\ conn' = 0
  /\ Set(p, [callers[p] EXCEPT !.err = ConnectionError(@), !.pc = "raised"])
  /\ UNCHANGED <<nextId, closed, serialized>>

\* gen.throw(e) at the yield the generator is suspended at: line 52 stands in
\* the inner try (handler: line 54), line 71 in the outer one (handler: line 73)
Throw(r, e) ==
  IF r.at = 1 THEN [r EXCEPT !.thrown = TRUE, !.pc = "close"]
  ELSE [r EXCEPT !.err = e, !.pc = "except"]

\* the body of the with-block on the yielded connection: lines 83-106, 171-183
Block(p, outcomes) ==
  /\ callers[p].pc = "block"
  /\ \E outcome \in outcomes :
       LET r == callers[p]
           usable == r.held # 0 /\ r.held \notin closed
           sent == [r EXCEPT !.stmts = IF usable
                                       THEN @ \cup {IF r.phase = "exec" THEN r.query
                                                    ELSE SchemaQuery}
                                       ELSE @]
           e == BlockFailure(r, outcome)
       IN  /\ ~usable => outcome = "fails"
           /\ Set(p, IF BlockFails(outcome)
                     THEN Throw([ReadRows(sent, outcome) EXCEPT
                                   !.blockFailedAt = r.at,
                                   !.everThrown = TRUE,
                                   !.faults = @ \cup {e}], e)
                     ELSE AfterBlock(ReadRows(sent, outcome), "", conn))
  /\ UNCHANGED <<conn, nextId, closed, serialized>>

\* the operation's except clause: lines 108-110, 185-186
Raised(p) ==
  /\ callers[p].pc = "raised"
  /\ Set(p, AfterBlock(callers[p], callers[p].err, conn))
  /\ UNCHANGED <<conn, nextId, closed, serialized>>

\* lines 128-163: the completion request and what is made of its answer
Complete(p, texts) ==
  /\ callers[p].pc = "complete"
  /\ \E answer \in {None} \cup {Some(t) : t \in texts} :
       LET r == [callers[p] EXCEPT !.completions = @ + 1]
       IN  Set(p, IF answer = None
                  THEN FinishGenerate(r, GenerateError(ServiceFailure))
                  ELSE FinishGenerate([r EXCEPT !.replied = TRUE,
                                                !.reply = answer[1]],
                                      Validate(answer[1])))
  /\ UNCHANGED <<conn, nextId, closed, serialized>>

\* a caller starts an operation
Call(p, ops, queries, limit) ==
  /\ callers[p].pc = "idle"
  /\ callers[1].calls + callers[2].calls < limit
  /\ serialized => \A q \in Callers \ {p} : callers[q].pc = "idle"
  /\ \E o \in ops, sql \in queries : Set(p, Begin(callers[p], o, sql))
  /\ UNCHANGED <<conn, nextId, closed, serialized>>

GetConnection(p) ==
  \/ Check(p) \/ Probe(p) \/ Yield1(p) \/ Close(p) \/ Reset(p) \/ Connect(p)
  \/ Assign(p) \/ Yield2(p) \/ Except(p) \/ Raised(p)

\* one SQLTool used by one caller
Next ==
  \/ Call(1, Operations, SampleQueries, MaxCalls)
  \/ GetConnection(1)
  \/ Block(1, BlockOutcomes)
  \/ Complete(1, SampleTexts)

Spec == Init /\ [][Next]_vars

\* one run of the pipeline, over every completion text
NextText ==
  \/ (callers[1].op = "none" /\ Call(1, {"natural_language_to_sql_results"}, {""}, MaxCalls))
  \/ GetConnection(1)
  \/ Block(1, BlockOutcomes)
  \/ Complete(1, Texts)

SpecText == Init /\ [][NextText]_vars

\* one SQLTool shared by two callers, with and without external serialization
InitShared ==
  /\ conn = 0
  /\ nextId = 1
  /\ closed = {}
  /\ serialized \in BOOLEAN
  /\ callers = [p \in Callers |-> IdleCaller]

NextShared ==
  \E p \in Callers :
    \/ Call(p, {"execute_query"}, {"SELECT a FROM t"}, MaxSharedCalls)
    \/ GetConnection(p)
    \/ Block(p, {"rows", "fails"})

SpecShared == InitShared /\ [][NextShared]_vars

-----------------------------------------------------------------------------
(* Properties                                                              *)

Opened == 1..(nextId - 1)

HasData(result) == "data" \in DOMAIN result /\ result.data # None

\* t holds keyword k at position i, whatever the case of its letters
KeywordAt(t, k, i) ==
  /\ i + Len(k) - 1 <= Len(t)
  /\ \A j \in 1..Len(k) : LowerChar(Char(t, i + j - 1)) = Char(k, j)

MentionsKeyword(t) == \E k \in Keywords, i \in 1..Len(t) : KeywordAt(t, k, i)

\* C1: a completion text that holds a denylisted keyword, in any case and at
\* any position, before or after the fence markers are removed, makes
\* natural_language_to_sql_results return status=error with the rejection
\* message; execute_query is not invoked and the database sees nothing but the
\* probe and the schema queries.
C1_HarmfulTextNeverExecuted ==
  \A p \in Callers :
    LET r == callers[p]
    IN  (r.replied /\ (MentionsKeyword(r.reply) \/ MentionsKeyword(StripFences(r.reply))))
        => /\ r.pc = "idle"
           /\ r.result = [status |-> "error", error |-> Some(HarmfulError)]
           /\ r.executes = 0
           /\ r.stmts \subseteq {ProbeQuery, SchemaQuery}

\* the keyword appears only once the fence markers are gone, in mixed case
C1_Witness ==
  /\ callers[1].replied
  /\ callers[1].reply = "dr" \o Fence \o "oP"
  /\ callers[1].pc = "idle"

\* C2: when get_table_schema yields the empty mapping,
\* natural_language_to_sql_results returns status=error and has made no
\* completion request and no execute_query call.
C2_EmptySchemaStopsPipeline ==
  \A p \in Callers :
    LET r == callers[p]
    IN  (r.op = "natural_language_to_sql_results" /\ r.tables = "empty")
        => /\ r.pc = "idle"
           /\ r.result.status = "error"
           /\ r.completions = 0
           /\ r.executes = 0

\* the schema is empty because the connect of the introspection failed
C2_Witness ==
  /\ callers[1].op = "natural_language_to_sql_results"
  /\ callers[1].tables = "empty"
  /\ callers[1].connectFailed
  /\ callers[1].pc = "idle"

\* execute_query has returned after its acquisition raised before the block,
\* or after the block's statement raised
ExecuteFailed(r) ==
  /\ r.pc = "idle"
  /\ r.phase = "exec"
  /\ \/ r.connectFailed /\ r.blockFailedAt = 0
     \/ StatementFailure \in r.faults

\* C3: when connection acquisition or statement execution raises,
\* execute_query returns status=error, no data, the query it was given, and
\* as error the description of an exception that occurred (as it is, or
\* wrapped by line 75).
C3_ErrorDescribesFailure ==
  \A p \in Callers :
    LET r == callers[p]
    IN  ExecuteFailed(r)
        => /\ r.result.status = "error"
           /\ r.result.data = None
           /\ r.result.query = r.query
           /\ \E e \in r.faults :
                r.result.error \in {Some(e), Some(ConnectionError(e))}

\* C4: every returned result has data exactly when its status is success.
C4_DataIffSuccess ==
  \A p \in Callers :
    LET r == callers[p]
    IN  (r.pc = "idle" /\ r.result.status # "none")
        => (HasData(r.result) <=> r.result.status = "success")

\* closing the cursor failed after the rows were read
C4_Witness ==
  /\ callers[1].pc = "idle"
  /\ CursorCloseFailure \in callers[1].faults
  /\ callers[1].result.status = "success"
  /\ callers[1].result.error # None

\* C5: every result of natural_language_to_sql_results has exactly the fields
\* status, query, error and data.
C5_ResultHasFourFields ==
  \A p \in Callers :
    LET r == callers[p]
    IN  (r.pc = "idle" /\ r.op = "natural_language_to_sql_results")
        => DOMAIN r.result = {"status", "query", "error", "data"}

\* C6: an acquisition that finds the handle Live and whose probe succeeds makes
\* exactly one probe, no connect and no close, and yields the connection the
\* handle referred to; when the with-block before it was of the same kind,
\* the handle still refers to that block's connection.
C6_LiveAcquisitionIdempotent ==
  \A p \in Callers :
    LET r == callers[p]
    IN  (r.pc = "block" /\ r.start # 0 /\ ~r.probeFailed)
        => /\ r.at = 1
           /\ r.probes = 1
           /\ r.connects = 0
           /\ r.closes = 0
           /\ r.held = conn
           /\ conn = r.start
           /\ conn \notin closed
           /\ r.prev # 0 => conn = r.prev

\* the second of two such acquisitions has yielded
C6_Witness ==
  /\ callers[1].pc = "block"
  /\ callers[1].at = 1
  /\ callers[1].prev # 0

\* C7: no acquisition connects more than once; after a failed probe the old
\* connection has had close() called and the handle no longer refers to it,
\* and one connect follows: when it succeeds the handle is Live on the new
\* connection, and whenever a connect fails the acquisition raises
\* ConnectionError and the handle is None.
C7_ProbeFailureReconnectsOnce ==
  \A p \in Callers :
    LET r == callers[p]
    IN  /\ r.connects <= 1
        /\ (r.probeFailed /\ r.pc \notin {"close", "reset"})
           => /\ r.start \in closed
              /\ r.closes = 1
              /\ conn # r.start
        /\ (r.probeFailed /\ r.pc \notin {"close", "reset", "connect"})
           => r.connects = 1
        /\ (r.probeFailed /\ r.pc = "block")
           => /\ r.at = 2
              /\ conn = r.held
              /\ conn \in Opened \ closed
              /\ ~r.connectFailed
        /\ (r.connectFailed /\ r.pc # "except")
           => /\ conn = 0
              /\ r.pc = "raised" => r.err = ConnectionError(ConnectFailure)
              /\ (r.pc # "raised" /\ r.phase = "exec")
                 => r.result.error = Some(ConnectionError(ConnectFailure))
              /\ (r.pc # "raised" /\ r.phase = "schema") => r.tables = "empty"

\* the probe failed and the reconnect of the same acquisition succeeded
C7_Witness ==
  /\ callers[1].probeFailed
  /\ callers[1].pc = "block"

\* connection c was stored in the handle, is still open, and the handle no
\* longer refers to it
Orphan(c) ==
  /\ c \in Opened \ closed
  /\ c # conn
  /\ \A p \in Callers : ~(callers[p].pc = "assign" /\ callers[p].newc = c)

\* caller p is in its with-block on a connection that was closed, or that
\* the handle does not refer to any more
InUseLost(p) ==
  /\ callers[p].pc = "block"
  /\ \/ callers[p].held = 0
     \/ callers[p].held \in closed
     \/ callers[p].held # conn

NoBlockThrew == \A p \in Callers : ~callers[p].everThrown

\* C8: with the callers' operations serialized, the probe and reconnect steps
\* alone leave no open connection outside the handle and take no connection
\* from under a caller that is using it.
C8_SerializedCallersAreSafe ==
  (serialized /\ NoBlockThrew)
  => /\ \A c \in Opened : ~Orphan(c)
     /\ \A p \in Callers : ~InUseLost(p)

\* C8, the other half: without serialization some interleaving of the probe
\* and reconnect steps reaches both bad states at once
C8_Witness ==
  /\ ~serialized
  /\ NoBlockThrew
  /\ \E c \in Opened : Orphan(c)
  /\ \E p \in Callers : callers[p].held \in closed /\ InUseLost(p)

\* C9: a statement that fails on a connection that passed its probe causes no
\* close and no connect, and the handle still refers to that connection.
C9_StatementFailureKeepsConnection ==
  \A p \in Callers :
    LET r == callers[p]
    IN  (r.pc = "idle" /\ r.blockFailedAt = 1)
        => /\ r.closes = 0
           /\ r.connects = 0
           /\ conn = r.start
           /\ conn \notin closed

\* C10: between operations every connection that is still open is the one the
\* handle refers to.
C10_NoOpenConnectionOutsideHandle ==
  (\A p \in Callers : callers[p].pc = "idle")
  => \A c \in Opened : c \notin closed => c = conn

====
